---- MODULE Spec2Model ----
(***************************************************************************)
(* A model of bout-bisect: the git-bisect driver script main() of          *)
(* src/bout_bisect/bout_bisect.py, its run aggregator runtest(), the log   *)
(* table reader read_timings_from_logfile() and the classifier             *)
(* metric_is_good().                                                       *)
(*                                                                         *)
(* Floating point values are modelled as exact rationals (rounding is not  *)
(* modelled); a standard deviation is kept as the square root of a         *)
(* rational.  An uncaught Python exception ends the process with exit      *)
(* status 1.                                                               *)
(***************************************************************************)
EXTENDS Integers, Sequences, FiniteSets, TLC

VARIABLES
    \* ---- the classifier on its own (SpecMetric)
    cls_in,             \* the arguments of one metric_is_good call
    cls_out,            \* "none" before the call, then "good" or "bad"
    \* ---- the log reader on its own (SpecRead)
    logfile,            \* the file directory/BOUT.log.0: exists, lines
    rd_args,            \* nout, skip_first, name, directory
    rd_result,          \* what read_timings_from_logfile gave
    \* ---- the metric deriver on its own (SpecDerive)
    timing_table,       \* the rows of the table handed to the deriver
    derived,            \* the column asked for and the two averages of it
    \* ---- one run of main() (Spec)
    pc,                 \* where main() is
    args,               \* the parsed command line
    git,                \* git_info(): commit, date
    ops,                \* the external commands and calls made so far
    run_number,         \* runtest's loop variable
    runtime,            \* runtest's list of wall-clock times
    data,               \* the logs in the working directory data/
    backups,            \* log_dir: subdirectory -> the logs copied there
    stats,              \* what runtest returned
    bisect_timings,     \* the lines of the file bisect_timings
    bisect_script_log,  \* the lines of the file bisect_script_log
    timings0,           \* bisect_timings as main() found it
    script0,            \* bisect_script_log as main() found it
    verdict,            \* what metric_is_good returned to main()
    exitcode,           \* the process exit status, -1 while running
    raised              \* the exception that ended main(), "" if none

vars == <<cls_in, cls_out, logfile, rd_args, rd_result, timing_table, derived,
          pc, args, git, ops, run_number, runtime, data, backups, stats,
          bisect_timings, bisect_script_log, timings0, script0, verdict,
          exitcode, raised>>

clsVars == <<cls_in, cls_out>>
readVars == <<logfile, rd_args, rd_result>>
derVars == <<timing_table, derived>>
mainVars == <<pc, args, git, ops, run_number, runtime, data, backups, stats,
              bisect_timings, bisect_script_log, timings0, script0, verdict,
              exitcode, raised>>

-----------------------------------------------------------------------------
(* Numbers.  k = "fin": the rational n/d (d > 0, lowest terms);            *)
(* k = "sqrt": the square root of n/d; k = "inf": +infinity (n = 1) or     *)
(* -infinity (n = -1); k = "nan": not a number.                            *)

Abs(x) == IF x < 0 THEN -x ELSE x

RECURSIVE GCD(_, _)
GCD(a, b) == IF b = 0 THEN a ELSE GCD(b, a % b)

R(n, d) ==
    LET g == GCD(Abs(n), Abs(d))
        s == IF d < 0 THEN -1 ELSE 1
    IN  [k |-> "fin", n |-> s * (n \div g), d |-> s * (d \div g)]

I(n) == [k |-> "fin", n |-> n, d |-> 1]
NaN == [k |-> "nan", n |-> 0, d |-> 1]
Inf(s) == [k |-> "inf", n |-> s, d |-> 1]
Sqrt(x) == IF x.k = "fin" THEN [k |-> "sqrt", n |-> x.n, d |-> x.d] ELSE NaN

NAdd(a, b) == R(a.n * b.d + b.n * a.d, a.d * b.d)
NSub(a, b) == R(a.n * b.d - b.n * a.d, a.d * b.d)
NMul(a, b) == R(a.n * b.n, a.d * b.d)

\* float division as numpy does it: x/0 is inf or nan, with a warning only
NDiv(a, b) ==
    IF a.k # "fin" \/ b.k # "fin" THEN NaN
    ELSE IF b.n = 0 THEN (IF a.n = 0 THEN NaN
                          ELSE Inf(IF a.n > 0 THEN 1 ELSE -1))
    ELSE R(a.n * b.d, a.d * b.n)

\* a < b on floats; every comparison with nan is false
NLess(a, b) ==
    CASE a.k = "nan" \/ b.k = "nan" -> FALSE
      [] a.k = "inf" /\ b.k = "inf" -> a.n < b.n
      [] a.k = "inf" -> a.n < 0
      [] b.k = "inf" -> b.n > 0
      [] a.k = "fin" /\ b.k = "fin" -> a.n * b.d < b.n * a.d
      [] a.k = "sqrt" /\ b.k = "fin" ->
            b.n > 0 /\ a.n * b.d * b.d < b.n * b.n * a.d
      [] a.k = "fin" /\ b.k = "sqrt" ->
            a.n < 0 \/ a.n * a.n * b.d < b.n * a.d * a.d
      [] OTHER -> a.n * b.d < b.n * a.d

-----------------------------------------------------------------------------
(* metric_is_good                                                          *)

DefaultFactor == R(1, 2)

\* a plausible slip: the noise test left out
metric_is_good_no_std(good, bad, metric, metric_std, factor) ==
    LET weighted_difference == NMul(factor, NSub(bad, good))
        good_zone == NAdd(good, weighted_difference)
    IN  NLess(metric, good_zone)

metric_is_good(good, bad, metric, metric_std, factor) ==
    LET weighted_difference == NMul(factor, NSub(bad, good))
        good_zone == NAdd(good, weighted_difference)
    IN  NLess(metric, good_zone) /\ NLess(metric_std, weighted_difference)

MaxClsVal == 5

\* factors as (numerator, denominator)
ClsFactors == {<<1, 2>>, <<1, 4>>, <<1, 1>>}

\* the three worked cases: good=10, bad=20, with (metric, std)
ClsExamples == {<<10, 20, 12, 1>>, <<10, 20, 18, 1>>, <<10, 20, 12, 6>>}

ClsInputs ==
    {[good |-> t[1], bad |-> t[2], metric |-> t[3], std |-> t[4],
      fn |-> f[1], fd |-> f[2]] :
        t \in ((0..MaxClsVal) \X (0..MaxClsVal) \X (0..MaxClsVal)
                 \X (0..MaxClsVal)) \cup ClsExamples,
        f \in ClsFactors}

NoCall == [good |-> 0, bad |-> 0, metric |-> 0, std |-> 0, fn |-> 1, fd |-> 2]

ClassifyCall ==
    /\ cls_out = "none"
    /\ cls_out' = IF metric_is_good(I(cls_in.good), I(cls_in.bad),
                                    I(cls_in.metric), I(cls_in.std),
                                    R(cls_in.fn, cls_in.fd))
                  THEN "good" ELSE "bad"
    /\ UNCHANGED <<cls_in, readVars, derVars, mainVars>>

-----------------------------------------------------------------------------
(* The log file.  A line is a header line (it begins with "Sim Time"), a   *)
(* blank line, a data row of the timing table, the "Run finished" line, or *)
(* any other text (which has no "Sim Time" column and fewer fields than    *)
(* the table has columns).                                                 *)

Line(kind, t, rhs, wall, inv) ==
    [kind |-> kind, t |-> t, rhs |-> rhs, wall |-> wall, inv |-> inv]

HeaderLine == Line("header", 0, 0, 0, 0)
BlankLine == Line("blank", 0, 0, 0, 0)
FinishedLine == Line("finished", 0, 0, 0, 0)
OtherLine == Line("other", 0, 0, 0, 0)

Min(a, b) == IF a < b THEN a ELSE b
Max(a, b) == IF a > b THEN a ELSE b

\* the 0-based number of the last line of that kind, -1 if there is none
LastLineNumber(lines, kind) ==
    LET S == {i \in 1..Len(lines) : lines[i].kind = kind}
    IN  IF S = {} THEN -1 ELSE (CHOOSE i \in S : \A j \in S : j <= i) - 1

\* the 0-based number of the first line of that kind, -1 if there is none
FirstLineNumber(lines, kind) ==
    LET S == {i \in 1..Len(lines) : lines[i].kind = kind}
    IN  IF S = {} THEN -1 ELSE (CHOOSE i \in S : \A j \in S : i <= j) - 1

NoBounds(err) == [err |-> err, start |-> -1, end |-> -1, total |-> 0]

\* a plausible slip: start and end preset, so that a log without a sentinel
\* is read from its first line to its last
get_start_end_preset(f) ==
    IF ~f.exists THEN NoBounds("FileNotFoundError")
    ELSE [err |-> "",
          start |-> Max(0, LastLineNumber(f.lines, "header")),
          end |-> IF LastLineNumber(f.lines, "finished") = -1
                  THEN Len(f.lines)
                  ELSE LastLineNumber(f.lines, "finished"),
          total |-> Len(f.lines)]

\* _get_start_end_of_timings: start and end are bound only by a matching
\* line, and the return statement reads both
get_start_end_of_timings(f) ==
    IF ~f.exists THEN NoBounds("FileNotFoundError")
    ELSE LET start == LastLineNumber(f.lines, "header")
             end == LastLineNumber(f.lines, "finished")
         IN  IF start = -1 \/ end = -1 THEN NoBounds("UnboundLocalError")
             ELSE [err |-> "", start |-> start, end |-> end,
                   total |-> Len(f.lines)]

\* _get_start_of_timings of the first version of the script: the first
\* matching line; falls off the end (None, here -1) when there is none
get_start_of_timings(f) ==
    IF ~f.exists THEN NoBounds("FileNotFoundError")
    ELSE [err |-> "", start |-> FirstLineNumber(f.lines, "header"),
          end |-> -1, total |-> Len(f.lines)]

\* the positions of the lines of seq that are not blank, ascending
RECURSIVE NonBlank(_, _)
NonBlank(seq, i) ==
    IF i > Len(seq) THEN <<>>
    ELSE IF seq[i].kind = "blank" THEN NonBlank(seq, i + 1)
    ELSE <<i>> \o NonBlank(seq, i + 1)

\* one parsed row; a line that is not a data row gives a row whose index is
\* text and whose missing fields are NaN
ParseRow(l) ==
    [junk |-> l.kind # "row", t |-> l.t, rhs |-> l.rhs, wall |-> l.wall,
     inv |-> l.inv]

RECURSIVE ParseRows(_, _)
ParseRows(seq, i) ==
    IF i > Len(seq) THEN <<>>
    ELSE IF seq[i].kind = "blank" THEN ParseRows(seq, i + 1)
    ELSE <<ParseRow(seq[i])>> \o ParseRows(seq, i + 1)

\* pandas.read_csv(path, sep=..., skiprows=, nrows=, engine="python",
\* index_col="Sim Time").  The first line that is not blank after the
\* skipped ones is the header.  The python engine then looks ahead at two
\* lines that are not blank (for the index names) and keeps them buffered;
\* nrows is served from that buffer, and what is missing is read as that
\* many further raw lines, blank ones included, which are dropped after.
read_csv(f, skiprows, nrows) ==
    LET rest == SubSeq(f.lines, skiprows + 1, Len(f.lines))
        nbr == NonBlank(rest, 1)
    IN  IF nrows < 0 THEN [err |-> "ValueError", rows |-> <<>>]
        ELSE IF nbr = <<>> THEN [err |-> "EmptyDataError", rows |-> <<>>]
        ELSE IF rest[nbr[1]].kind # "header"
             THEN [err |-> "ValueError", rows |-> <<>>]
        ELSE LET body == SubSeq(rest, nbr[1] + 1, Len(rest))
                 nb == NonBlank(body, 1)
                 nbuf == Min(2, Len(nb))
                 pos == IF Len(nb) < 2 THEN Len(body) ELSE nb[2]
                 upto == IF nrows <= nbuf
                         THEN (IF nrows = 0 THEN 0 ELSE nb[nrows])
                         ELSE Min(pos + (nrows - nbuf), Len(body))
             IN  [err |-> "", rows |-> ParseRows(SubSeq(body, 1, upto), 1)]

\* timing_table.drop([0]): every row whose index equals 0 goes; KeyError
\* when no row has that index (a text index never equals 0)
DropZero(rows) ==
    IF (\E i \in 1..Len(rows) : rows[i].junk)
       \/ ~(\E j \in 1..Len(rows) : rows[j].t = 0)
    THEN [err |-> "KeyError", rows |-> <<>>]
    ELSE [err |-> "", rows |-> SelectSeq(rows, LAMBDA r : r.t # 0)]

\* the "<column> (absolute)" column, here for Inv: Wall Time * (Inv / 100)
Absolute(r) ==
    [junk |-> r.junk, t |-> r.t, rhs |-> r.rhs, wall |-> r.wall,
     inv |-> r.inv,
     inv_abs |-> IF r.junk THEN NaN ELSE NMul(I(r.wall), R(r.inv, 100))]

WithAbsolute(rows) == [i \in 1..Len(rows) |-> Absolute(rows[i])]

(* Paths: a path is a sequence of segments below the root or below the
   working directory, a segment a sequence of its pieces, "." among them. *)
Segment(base, suffix) == IF suffix = "" THEN <<base>> ELSE <<base, ".", suffix>>

Cwd == <<Segment("home", ""), Segment("work", "")>>

\* pathlib.Path(directory).expanduser().resolve(): a relative path is taken
\* from the working directory (no "~", ".." or symbolic link among the inputs)
resolve(directory) ==
    IF directory.absolute THEN directory.segs ELSE Cwd \o directory.segs

\* PurePath.stem: the final segment without its last suffix; a dot that
\* leads or ends the segment starts no suffix; the root has the stem ""
LastDot(seg) ==
    LET dots == {i \in 1..Len(seg) : seg[i] = "."}
    IN  IF dots = {} THEN 0 ELSE CHOOSE i \in dots : \A j \in dots : j <= i

stem(segs) ==
    IF segs = <<>> THEN <<>>
    ELSE LET seg == segs[Len(segs)]
             i == LastDot(seg)
         IN  IF 1 < i /\ i < Len(seg) THEN SubSeq(seg, 1, i - 1) ELSE seg

\* PurePath.parent
parent(segs) == IF segs = <<>> THEN <<>> ELSE SubSeq(segs, 1, Len(segs) - 1)

\* the name the reader gives the table
table_name(a) ==
    IF a.name_given THEN a.name
    ELSE LET path == resolve(a.directory)
         IN  IF stem(path) = Segment("data", "") THEN stem(parent(path))
             ELSE stem(path)

\* a DataFrameWithName: the rows and the "name" attribute, which a plain
\* DataFrame (and a fresh DataFrameWithName) does not have
NoName == <<>>

DataFrameWithName(rows) == [name |-> NoName, rows |-> rows]

\* DataFrameWithName.drop([0]): the result is built by _constructor and
\* takes over the attributes listed in _metadata, here the name
drop(df) ==
    LET d == DropZero(df.rows)
    IN  [err |-> d.err, df |-> [name |-> df.name, rows |-> d.rows]]

Failure(e, by) ==
    [kind |-> "error", err |-> e, name |-> NoName, rows |-> <<>>, by |-> by]

Table(df, by) ==
    [kind |-> "table", err |-> "", name |-> df.name, rows |-> df.rows,
     by |-> by]

NoResult ==
    [kind |-> "none", err |-> "", name |-> NoName, rows |-> <<>>, by |-> ""]

read_timings_from_logfile(a, f) ==
    LET se == get_start_end_of_timings(f)
        nout == IF a.nout_given THEN a.nout ELSE se.end - se.start - 2
        csv == read_csv(f, se.start, nout)
        table == [DataFrameWithName(csv.rows) EXCEPT !.name = table_name(a)]
        kept == IF a.skip_first THEN drop(table)
                ELSE [err |-> "", df |-> table]
    IN  IF se.err # "" THEN Failure(se.err, "read")
        ELSE IF csv.err # "" THEN Failure(csv.err, "read")
        ELSE IF kept.err # "" THEN Failure(kept.err, "read")
        ELSE Table([kept.df EXCEPT !.rows = WithAbsolute(@)], "read")

\* read_timings_from_logfile of the first version of the script: nout is
\* required, nrows is nout + 2, no row is dropped, the table is a plain
\* DataFrame
legacy_read_timings_from_logfile(a, f) ==
    LET se == get_start_of_timings(f)
        csv == read_csv(f, Max(0, se.start), a.nout + 2)
    IN  IF se.err # "" THEN Failure(se.err, "legacy")
        ELSE IF csv.err # "" THEN Failure(csv.err, "legacy")
        ELSE Table([name |-> NoName, rows |-> WithAbsolute(csv.rows)],
                   "legacy")

(* The logs the reader is tried on. *)
MaxRows == 3
MaxNout == 5

RowAt(t) == Line("row", t, t + 1, 2 * (t + 1), 50)

Rows(n, t0) == [i \in 1..n |-> RowAt(t0 + i - 1)]

Opt(b, l) == IF b THEN <<l>> ELSE <<>>

LogLines(pre, hdr, b1, n, t0, b2, fin, post) ==
    Opt(pre, OtherLine) \o Opt(hdr, HeaderLine) \o Opt(b1, BlankLine)
      \o Rows(n, t0) \o Opt(b2, BlankLine) \o Opt(fin, FinishedLine)
      \o Opt(post, OtherLine)

LogFiles ==
    {[exists |-> FALSE, lines |-> <<>>]} \cup
    {[exists |-> TRUE, lines |-> LogLines(pre, hdr, b1, n, t0, b2, fin, post)] :
        pre \in BOOLEAN, hdr \in BOOLEAN, b1 \in BOOLEAN, n \in 0..MaxRows,
        t0 \in {0, 1}, b2 \in BOOLEAN, fin \in BOOLEAN, post \in BOOLEAN}

\* the directories the reader is pointed at, and the names it is given
Dir(absolute, segs) == [absolute |-> absolute, segs |-> segs]

DataDir == Dir(FALSE, <<Segment("data", "")>>)

Directories ==
    {Dir(TRUE, <<Segment("a", ""), Segment("b", ""), Segment("data", "")>>),
     Dir(TRUE, <<Segment("a", ""), Segment("b", ""), Segment("sim", "")>>),
     Dir(TRUE, <<Segment("a", ""), Segment("b", ""), Segment("sim", "v2")>>),
     DataDir}

Naming ==
    {[name_given |-> FALSE, name |-> NoName, directory |-> d] :
        d \in Directories}
    \cup {[name_given |-> TRUE, name |-> Segment("mine", ""),
           directory |-> DataDir]}

ReadArgs ==
    {[nout_given |-> g, nout |-> n, skip_first |-> s,
      name_given |-> nm.name_given, name |-> nm.name,
      directory |-> nm.directory] :
        g \in BOOLEAN, n \in 0..MaxNout, s \in BOOLEAN, nm \in Naming}

ReadTimings ==
    /\ rd_result.kind = "none"
    /\ rd_result' = read_timings_from_logfile(rd_args, logfile)
    /\ UNCHANGED <<logfile, rd_args, clsVars, derVars, mainVars>>

LegacyReadTimings ==
    /\ rd_result.kind = "none"
    /\ rd_args.nout_given
    /\ rd_result' = legacy_read_timings_from_logfile(rd_args, logfile)
    /\ UNCHANGED <<logfile, rd_args, clsVars, derVars, mainVars>>

-----------------------------------------------------------------------------
(* The metric deriver and numpy's reductions.                              *)

RECURSIVE SumInt(_, _)
SumInt(seq, i) == IF i > Len(seq) THEN 0 ELSE seq[i] + SumInt(seq, i + 1)

RECURSIVE SumNum(_, _)
SumNum(seq, i) ==
    IF i > Len(seq) THEN I(0) ELSE NAdd(seq[i], SumNum(seq, i + 1))

AllFinite(seq) == \A i \in 1..Len(seq) : seq[i].k = "fin"

\* Series.sum() of a column of numbers
ColumnSum(rows, column) ==
    CASE column = "RHS evals" -> I(SumInt([i \in 1..Len(rows) |-> rows[i].rhs], 1))
      [] column = "Wall Time" -> I(SumInt([i \in 1..Len(rows) |-> rows[i].wall], 1))
      [] column = "Inv (absolute)" ->
            SumNum([i \in 1..Len(rows) |-> rows[i].inv_abs], 1)

total_rhs(rows) == ColumnSum(rows, "RHS evals")

average_per_rhs(rows, column) == NDiv(ColumnSum(rows, column), total_rhs(rows))

time_per_rhs(rows) == average_per_rhs(rows, "Wall Time")

\* timing_table[column] as a sequence of numbers
Column(rows, column) ==
    [i \in 1..Len(rows) |->
        CASE column = "RHS evals" -> I(rows[i].rhs)
          [] column = "Wall Time" -> I(rows[i].wall)
          [] column = "Inv (absolute)" -> rows[i].inv_abs]

\* Series.mean() and Series.std(): nan entries are left out, std is the
\* sample form (ddof = 1); no entry in these columns is negative
Valid(seq) == SelectSeq(seq, LAMBDA x : x.k # "nan")

SeriesMean(seq) ==
    LET v == Valid(seq)
    IN  IF v = <<>> THEN NaN
        ELSE IF AllFinite(v) THEN NDiv(SumNum(v, 1), I(Len(v)))
        ELSE Inf(1)

SeriesStd(seq) ==
    LET v == Valid(seq)
    IN  IF Len(v) < 2 \/ ~AllFinite(v) THEN NaN
        ELSE LET m == SeriesMean(v)
                 dev == [i \in 1..Len(v) |->
                            NMul(NSub(v[i], m), NSub(v[i], m))]
             IN  Sqrt(NDiv(SumNum(dev, 1), I(Len(v) - 1)))

\* a plausible slip: the row-wise mean taken to be the ratio of the sums
average_and_std_per_rhs_of_sums(rows, column) ==
    LET value_per_rhs == [i \in 1..Len(rows) |->
            NDiv(Column(rows, column)[i], Column(rows, "RHS evals")[i])]
    IN  [mean |-> NDiv(ColumnSum(rows, column), ColumnSum(rows, "RHS evals")),
         std |-> SeriesStd(value_per_rhs)]

average_and_std_per_rhs(rows, column) ==
    LET value_per_rhs == [i \in 1..Len(rows) |->
            NDiv(Column(rows, column)[i], Column(rows, "RHS evals")[i])]
    IN  [mean |-> SeriesMean(value_per_rhs), std |-> SeriesStd(value_per_rhs)]

\* np.mean, np.std (population form) and np.min of a list that is not empty
np_mean(seq) ==
    IF AllFinite(seq) THEN NDiv(SumNum(seq, 1), I(Len(seq))) ELSE NaN

np_std(seq) ==
    IF ~AllFinite(seq) THEN NaN
    ELSE LET m == np_mean(seq)
             dev == [i \in 1..Len(seq) |->
                        NMul(NSub(seq[i], m), NSub(seq[i], m))]
         IN  Sqrt(NDiv(SumNum(dev, 1), I(Len(seq))))

np_min(seq) ==
    IF \E i \in 1..Len(seq) : seq[i].k = "nan" THEN NaN
    ELSE seq[CHOOSE i \in 1..Len(seq) :
                \A j \in 1..Len(seq) : ~NLess(seq[j], seq[i])]

(* The tables the deriver is tried on: rows as the reader returns them,
   with the work units and the wall time of each row chosen freely. *)
WorkUnits == 0..2
WallTimes == 0..2

TableRow(t, rhs, wall) ==
    Absolute([junk |-> FALSE, t |-> t, rhs |-> rhs, wall |-> wall, inv |-> 50])

TimingTables ==
    UNION {{[i \in 1..n |-> TableRow(i, w[i][1], w[i][2])] :
               w \in [1..n -> WorkUnits \X WallTimes]} : n \in 1..MaxRows}

DerivedColumns == {"Wall Time", "Inv (absolute)"}

NotDerived == [column |-> "", average |-> NaN, rowwise |-> [mean |-> NaN, std |-> NaN]]

\* one column of the table averaged both ways
Derive ==
    /\ derived.column = ""
    /\ \E column \in DerivedColumns :
         derived' = [column |-> column,
                     average |-> average_per_rhs(timing_table, column),
                     rowwise |-> average_and_std_per_rhs(timing_table, column)]
    /\ UNCHANGED <<timing_table, clsVars, readVars, mainVars>>

-----------------------------------------------------------------------------
(* main()                                                                  *)

GIT_SKIP_COMMIT_EXIT_CODE == 125

MaxRepeat == 2

MetricChoices == {"runtime-low", "runtime-mean", "inv_per_rhs", "time_per_rhs"}

\* --good and --bad when given, and --nout
GoodValues == {1}
BadValues == {5}
NoutValues == {3}

MainArgs ==
    {[clean |-> c, configure |-> f, make |-> m, write |-> w, just_run |-> j,
      repeat |-> r, good_given |-> gg, bad_given |-> bg, good |-> g,
      bad |-> b, script |-> s, metric |-> mt, nout |-> n] :
        c \in BOOLEAN, f \in BOOLEAN, m \in BOOLEAN, w \in BOOLEAN,
        j \in BOOLEAN, r \in 0..MaxRepeat, gg \in BOOLEAN, bg \in BOOLEAN,
        g \in GoodValues, b \in BadValues, s \in BOOLEAN,
        mt \in MetricChoices, n \in NoutValues}

NoArgs ==
    [clean |-> FALSE, configure |-> FALSE, make |-> FALSE, write |-> FALSE,
     just_run |-> FALSE, repeat |-> 0, good_given |-> FALSE,
     bad_given |-> FALSE, good |-> 0, bad |-> 0, script |-> FALSE,
     metric |-> "", nout |-> 0]

\* a plausible slip: only one of the two lone options is caught
args_invalid_one_sided(a) == a.good_given /\ ~a.bad_given

\* (args.good is None) ^ (args.bad is None)
args_invalid(a) == (~a.good_given) # (~a.bad_given)

\* if args.just_run: args.clean = args.configure = args.make = args.write = False
just_run(a) ==
    IF a.just_run
    THEN [a EXCEPT !.clean = FALSE, !.configure = FALSE, !.make = FALSE,
                   !.write = FALSE]
    ELSE a

\* one external command or call, with the number of the repetition it
\* belongs to (0 outside runtest's loop) and whether it succeeded
Op(name, i, ok) == [op |-> name, i |-> i, ok |-> ok]

\* the hash printed by git rev-parse HEAD and the date line of git show
FullHash == <<7, 1, 0, 2, 9, 4, 6, 3, 8, 5>>
DateLine == <<"2019-05-01 12:00:00 +0100", "\n">>

\* commit_date.strip()
Strip(s) == SelectSeq(s, LAMBDA c : c # "\n")

git_info == [commit |-> SubSeq(FullHash, 1, 7), date |-> Strip(DateLine)]

NoGit == [commit |-> <<>>, date |-> <<>>]

\* os.path.join(args.log_dir, git["commit"])
LogDir(g) == <<"logs", g.commit>>

\* the digits of n, most significant first
RECURSIVE Digits(_)
Digits(n) == IF n < 10 THEN <<n>> ELSE Digits(n \div 10) \o <<n % 10>>

\* a plausible slip: every repetition backed up into the same subdirectory
subdir_fixed(n) == <<0, 0>>

\* "run{:02d}".format(run_number), as the digits after "run"
subdir(n) == IF n < 10 THEN <<0, n>> ELSE Digits(n)

\* what one successful benchmark run leaves behind: its wall-clock time and
\* the log it wrote to data/BOUT.log.0
Framed(rows) ==
    [exists |-> TRUE,
     lines |-> <<OtherLine, HeaderLine, BlankLine>> \o rows
                 \o <<BlankLine, FinishedLine, OtherLine>>]

LogQuick == Framed(Rows(4, 0))
LogSlow == Framed([i \in 1..4 |-> Line("row", i - 1, 1, 6, 25)])
LogNoWork == Framed([i \in 1..4 |-> Line("row", i - 1, 0, 2, 50)])
LogNoTable == [exists |-> TRUE, lines |-> <<OtherLine, FinishedLine>>]

RunOutcomes ==
    {[time |-> 1, log |-> LogQuick], [time |-> 4, log |-> LogSlow],
     [time |-> 1, log |-> LogNoWork], [time |-> 4, log |-> LogNoTable]}

\* data/ before the first run: the logs of some earlier run
StaleData == [by |-> -1, log |-> LogSlow]

NoStats == [set |-> FALSE, mean |-> NaN, std |-> NaN, low |-> NaN]

\* lines left in the two files by earlier bisection steps
PriorTimings ==
    [commit |-> <<0, 0, 0, 0, 0, 0, 0>>, date |-> <<"2019-04-30 09:00:00 +0100">>,
     mean |-> I(2), std |-> I(0), low |-> I(2),
     dir |-> <<"logs", <<0, 0, 0, 0, 0, 0, 0>>>>]
PriorScript ==
    [commit |-> <<0, 0, 0, 0, 0, 0, 0>>, date |-> <<"2019-04-30 09:00:00 +0100">>,
     result |-> "out", dir |-> <<"logs", <<0, 0, 0, 0, 0, 0, 0>>>>]

\* a plausible slip: the file opened with mode "w"
file_truncate_write(f, line) == <<line>>

\* with open(name, "a") as f: f.write(line)
file_append(f, line) == Append(f, line)

\* exit(code), or an uncaught exception (exit status 1)
Exit(code, exc) ==
    /\ pc' = "exited"
    /\ exitcode' = code
    /\ raised' = exc

\* except RuntimeError: exit(GIT_SKIP_COMMIT_EXIT_CODE)
Skip == Exit(GIT_SKIP_COMMIT_EXIT_CODE, "")

ParseArgs ==
    /\ pc = "parse"
    /\ args' \in MainArgs
    /\ pc' = "validate"
    /\ UNCHANGED <<git, ops, run_number, runtime, data, backups, stats,
                   bisect_timings, bisect_script_log, timings0, script0,
                   verdict, exitcode, raised, clsVars, readVars, derVars>>

Validate ==
    /\ pc = "validate"
    /\ IF args_invalid(args)
       THEN Exit(1, "RuntimeError") /\ UNCHANGED args
       ELSE /\ args' = just_run(args)
            /\ pc' = "git"
            /\ UNCHANGED <<exitcode, raised>>
    /\ UNCHANGED <<git, ops, run_number, runtime, data, backups, stats,
                   bisect_timings, bisect_script_log, timings0, script0,
                   verdict, clsVars, readVars, derVars>>

\* git_info(): two shell_safe calls outside the try block
GitInfo ==
    /\ pc = "git"
    /\ \E failed \in {"", "git rev-parse", "git show"} :
         /\ ops' = ops \o
              CASE failed = "" -> <<Op("git rev-parse", 0, TRUE),
                                    Op("git show", 0, TRUE)>>
                [] failed = "git rev-parse" -> <<Op("git rev-parse", 0, FALSE)>>
                [] failed = "git show" -> <<Op("git rev-parse", 0, TRUE),
                                            Op("git show", 0, FALSE)>>
         /\ IF failed = ""
            THEN /\ git' = git_info
                 /\ pc' = "clean"
                 /\ UNCHANGED <<exitcode, raised>>
            ELSE Exit(1, "RuntimeError") /\ UNCHANGED git
    /\ UNCHANGED <<args, run_number, runtime, data, backups, stats,
                   bisect_timings, bisect_script_log, timings0, script0,
                   verdict, clsVars, readVars, derVars>>

\* the outcome of a step whose commands all go through shell_safe, which
\* raises RuntimeError on a non-zero status
checked(ok) == IF ok THEN "" ELSE "RuntimeError"

\* a plausible slip: configure run through shell, which reports the status
\* and does not raise (as make distclean is)
configure_bout_unchecked(ok) == ""

configure_bout(ok) == checked(ok)

build_bout(ok) == checked(ok)

\* a plausible slip: the benchmark run through shell, its status ignored
benchmark_unchecked(ok) == ""

\* shell_safe(command) inside timeit
benchmark(ok) == checked(ok)

\* cleanup(): make distclean through shell (its status is ignored), then
\* find and git submodule update through shell_safe
cleanup_ops(distclean_ok, failed) ==
    <<Op("make distclean", 0, distclean_ok)>> \o
    CASE failed = "" -> <<Op("find", 0, TRUE),
                          Op("git submodule update", 0, TRUE)>>
      [] failed = "find" -> <<Op("find", 0, FALSE)>>
      [] failed = "git submodule update" ->
            <<Op("find", 0, TRUE), Op("git submodule update", 0, FALSE)>>

Cleanup ==
    /\ pc = "clean"
    /\ IF args.clean
       THEN \E distclean_ok \in BOOLEAN,
               failed \in {"", "find", "git submodule update"} :
              /\ ops' = ops \o cleanup_ops(distclean_ok, failed)
              /\ IF checked(failed = "") = ""
                 THEN pc' = "configure" /\ UNCHANGED <<exitcode, raised>>
                 ELSE Skip
       ELSE pc' = "configure" /\ UNCHANGED <<ops, exitcode, raised>>
    /\ UNCHANGED <<args, git, run_number, runtime, data, backups, stats,
                   bisect_timings, bisect_script_log, timings0, script0,
                   verdict, clsVars, readVars, derVars>>

Configure ==
    /\ pc = "configure"
    /\ IF args.configure
       THEN \E ok \in BOOLEAN :
              /\ ops' = Append(ops, Op("configure", 0, ok))
              /\ IF configure_bout(ok) = ""
                 THEN pc' = "build" /\ UNCHANGED <<exitcode, raised>>
                 ELSE Skip
       ELSE pc' = "build" /\ UNCHANGED <<ops, exitcode, raised>>
    /\ UNCHANGED <<args, git, run_number, runtime, data, backups, stats,
                   bisect_timings, bisect_script_log, timings0, script0,
                   verdict, clsVars, readVars, derVars>>

Build ==
    /\ pc = "build"
    /\ IF args.make
       THEN \E ok \in BOOLEAN :
              /\ ops' = Append(ops, Op("make -j8", 0, ok))
              /\ IF build_bout(ok) = ""
                 THEN pc' = "runtest" /\ UNCHANGED <<exitcode, raised>>
                 ELSE Skip
       ELSE pc' = "runtest" /\ UNCHANGED <<ops, exitcode, raised>>
    /\ UNCHANGED <<args, git, run_number, runtime, data, backups, stats,
                   bisect_timings, bisect_script_log, timings0, script0,
                   verdict, clsVars, readVars, derVars>>

\* runtest() up to its loop: chdir to the model, shell_safe("make")
RunTestBegin ==
    /\ pc = "runtest"
    /\ \E ok \in BOOLEAN :
         /\ ops' = Append(ops, Op("make", 0, ok))
         /\ IF checked(ok) = ""
            THEN pc' = "run" /\ UNCHANGED <<exitcode, raised>>
            ELSE Skip
    /\ runtime' = <<>>
    /\ run_number' = 0
    /\ UNCHANGED <<args, git, data, backups, stats, bisect_timings,
                   bisect_script_log, timings0, script0, verdict, clsVars,
                   readVars, derVars>>

\* one pass of the loop, first half: the timed benchmark run, which
\* overwrites the logs in data/
RunOnce ==
    /\ pc = "run"
    /\ run_number < args.repeat
    /\ \E ok \in BOOLEAN, o \in RunOutcomes :
         /\ ops' = Append(ops, Op("mpirun", run_number, ok))
         /\ IF benchmark(ok) = ""
            THEN /\ runtime' = Append(runtime, I(o.time))
                 /\ data' = [by |-> run_number, log |-> o.log]
                 /\ pc' = "backup"
                 /\ UNCHANGED <<exitcode, raised>>
            ELSE Skip /\ UNCHANGED <<runtime, data>>
    /\ UNCHANGED <<args, git, run_number, backups, stats, bisect_timings,
                   bisect_script_log, timings0, script0, verdict, clsVars,
                   readVars, derVars>>

\* backup_log_file(log_dir, subdir): copy data/BOUT.log.* (and the dump
\* files) into log_dir/subdir, over whatever is there
backup_log_file(dirs, sub, content) ==
    {b \in dirs : b.dir # sub} \cup {[dir |-> sub, content |-> content]}

\* one pass of the loop, second half
Backup ==
    /\ pc = "backup"
    /\ backups' = backup_log_file(backups, subdir(run_number), data)
    /\ ops' = Append(ops, Op("backup", run_number, TRUE))
    /\ run_number' = run_number + 1
    /\ pc' = "run"
    /\ UNCHANGED <<args, git, runtime, data, stats, bisect_timings,
                   bisect_script_log, timings0, script0, verdict, exitcode,
                   raised, clsVars, readVars, derVars>>

\* the loop is over: return {"mean": ..., "std": ..., "low": ...};
\* np.min of an empty list raises ValueError, which main() does not catch
RunTestReturn ==
    /\ pc = "run"
    /\ run_number >= args.repeat
    /\ IF runtime = <<>>
       THEN Exit(1, "ValueError") /\ UNCHANGED stats
       ELSE /\ stats' = [set |-> TRUE, mean |-> np_mean(runtime),
                         std |-> np_std(runtime), low |-> np_min(runtime)]
            /\ pc' = "score"
            /\ UNCHANGED <<exitcode, raised>>
    /\ UNCHANGED <<args, git, ops, run_number, runtime, data, backups,
                   bisect_timings, bisect_script_log, timings0, script0,
                   verdict, clsVars, readVars, derVars>>

\* the statuses an external script ends with
ScriptStatuses == {0, 1, GIT_SKIP_COMMIT_EXIT_CODE}

\* if args.script is not None: run it, log its output, exit with its status
RunScript ==
    /\ pc = "score"
    /\ args.script
    /\ \E status \in ScriptStatuses :
         /\ ops' = Append(ops, Op("script", 0, status = 0))
         /\ Exit(status, "")
    /\ bisect_script_log' =
         IF args.write
         THEN file_append(bisect_script_log,
                          [commit |-> git.commit, date |-> git.date,
                           result |-> "out", dir |-> LogDir(git)])
         ELSE bisect_script_log
    /\ UNCHANGED <<args, git, run_number, runtime, data, backups, stats,
                   bisect_timings, timings0, script0, verdict, clsVars,
                   readVars, derVars>>

\* timings = "{commit}, {date}, {mean}, {std}, {low}, {dir}\n"
WriteTimings ==
    /\ pc = "score"
    /\ ~args.script
    /\ bisect_timings' =
         IF args.write
         THEN file_append(bisect_timings,
                          [commit |-> git.commit, date |-> git.date,
                           mean |-> stats.mean, std |-> stats.std,
                           low |-> stats.low, dir |-> LogDir(git)])
         ELSE bisect_timings
    /\ pc' = "classify"
    /\ UNCHANGED <<args, git, ops, run_number, runtime, data, backups, stats,
                   bisect_script_log, timings0, script0, verdict, exitcode,
                   raised, clsVars, readVars, derVars>>

\* the file log_dir/<sub>/BOUT.log.0
BackedUpLog(dirs, sub) ==
    IF \E b \in dirs : b.dir = sub
    THEN (CHOOSE b \in dirs : b.dir = sub).content.log
    ELSE [exists |-> FALSE, lines |-> <<>>]

\* dfs: one table per repetition, read with nout = args.nout and the
\* defaults skip_first=True, name=None
Pieces(s) == [k \in 1..Len(s) |-> ToString(s[k])]

\* os.path.join(log_dir, "run{:02d}".format(run))
RunDirectory(sub) ==
    Dir(FALSE, <<Segment("logs", ""), Pieces(git_info.commit),
                 <<"run">> \o Pieces(sub)>>)

RunTables(a, dirs) ==
    [i \in 1..a.repeat |->
        read_timings_from_logfile(
            [nout_given |-> TRUE, nout |-> a.nout, skip_first |-> TRUE,
             name_given |-> FALSE, name |-> NoName,
             directory |-> RunDirectory(subdir(i - 1))],
            BackedUpLog(dirs, subdir(i - 1)))]

\* the metrics dict; every entry is computed, whatever --metric is
Metrics(a, st, dfs) ==
    LET runtime_metric == a.metric \in {"runtime-low", "runtime-mean"}
        invs_per_rhs ==
            IF runtime_metric THEN <<I(0)>>
            ELSE [i \in 1..Len(dfs) |->
                    average_per_rhs(dfs[i].rows, "Inv (absolute)")]
        times_per_rhs ==
            IF runtime_metric THEN <<I(0)>>
            ELSE [i \in 1..Len(dfs) |-> time_per_rhs(dfs[i].rows)]
    IN  CASE a.metric = "runtime-low" -> [metric |-> st.low, std |-> st.std]
          [] a.metric = "runtime-mean" -> [metric |-> st.mean, std |-> st.std]
          [] a.metric = "inv_per_rhs" ->
                [metric |-> np_min(invs_per_rhs), std |-> np_std(invs_per_rhs)]
          [] a.metric = "time_per_rhs" ->
                [metric |-> np_min(times_per_rhs), std |-> np_std(times_per_rhs)]

\* a plausible slip: the two exit codes the wrong way round
exit_code_swapped(is_good) == IF is_good THEN 1 ELSE 0

\* if metric_is_good(...): exit(0) else: exit(1)
exit_code(is_good) == IF is_good THEN 0 ELSE 1

\* if args.good is not None: ... ; otherwise main() returns
Score ==
    /\ pc = "classify"
    /\ IF ~args.good_given
       THEN Exit(0, "") /\ UNCHANGED <<verdict, ops>>
       ELSE LET runtime_metric == args.metric \in {"runtime-low", "runtime-mean"}
                dfs == IF runtime_metric THEN <<>> ELSE RunTables(args, backups)
                bad == {i \in 1..Len(dfs) : dfs[i].kind = "error"}
            IN  IF bad # {}
                THEN /\ Exit(1, dfs[CHOOSE i \in bad : \A j \in bad : i <= j].err)
                     /\ UNCHANGED <<verdict, ops>>
                ELSE LET m == Metrics(args, stats, dfs)
                         is_good == metric_is_good(I(args.good), I(args.bad),
                                                   m.metric, m.std, DefaultFactor)
                     IN  /\ verdict' = IF is_good THEN "good" ELSE "bad"
                         /\ ops' = Append(ops, Op("metric_is_good", 0, TRUE))
                         /\ Exit(exit_code(is_good), "")
    /\ UNCHANGED <<args, git, run_number, runtime, data, backups, stats,
                   bisect_timings, bisect_script_log, timings0, script0,
                   clsVars, readVars, derVars>>

-----------------------------------------------------------------------------
(* The specifications.                                                     *)

ClsIdle == cls_in = NoCall /\ cls_out = "done"

ReadIdle ==
    /\ logfile = [exists |-> FALSE, lines |-> <<>>]
    /\ rd_args = [nout_given |-> FALSE, nout |-> 0, skip_first |-> FALSE,
                  name_given |-> FALSE, name |-> NoName, directory |-> DataDir]
    /\ rd_result = Failure("", "")

DerIdle ==
    /\ timing_table = <<>>
    /\ derived = [NotDerived EXCEPT !.column = "off"]

MainIdle ==
    /\ pc = "off"
    /\ args = NoArgs
    /\ git = NoGit
    /\ ops = <<>>
    /\ run_number = 0
    /\ runtime = <<>>
    /\ data = StaleData
    /\ backups = {}
    /\ stats = NoStats
    /\ bisect_timings = <<>>
    /\ bisect_script_log = <<>>
    /\ timings0 = <<>>
    /\ script0 = <<>>
    /\ verdict = "none"
    /\ exitcode = -1
    /\ raised = ""

\* main() is started in a directory where earlier steps may have left lines
\* in the two files
MainInit ==
    /\ pc = "parse"
    /\ args = NoArgs
    /\ git = NoGit
    /\ ops = <<>>
    /\ run_number = 0
    /\ runtime = <<>>
    /\ data = StaleData
    /\ backups = {}
    /\ stats = NoStats
    /\ \E prior \in BOOLEAN :
         /\ bisect_timings = Opt(prior, PriorTimings)
         /\ bisect_script_log = Opt(prior, PriorScript)
    /\ timings0 = bisect_timings
    /\ script0 = bisect_script_log
    /\ verdict = "none"
    /\ exitcode = -1
    /\ raised = ""

MainNext ==
    \/ ParseArgs
    \/ Validate
    \/ GitInfo
    \/ Cleanup
    \/ Configure
    \/ Build
    \/ RunTestBegin
    \/ RunOnce
    \/ Backup
    \/ RunTestReturn
    \/ RunScript
    \/ WriteTimings
    \/ Score

Init == MainInit /\ ClsIdle /\ ReadIdle /\ DerIdle
Next == MainNext
Spec == Init /\ [][Next]_vars

ClsInit == cls_in \in ClsInputs /\ cls_out = "none"
InitMetric == ClsInit /\ ReadIdle /\ DerIdle /\ MainIdle
NextMetric == ClassifyCall
SpecMetric == InitMetric /\ [][NextMetric]_vars

ReadInit ==
    /\ logfile \in LogFiles
    /\ rd_args \in ReadArgs
    /\ rd_result = NoResult
ReadNext == ReadTimings \/ LegacyReadTimings
InitRead == ReadInit /\ ClsIdle /\ DerIdle /\ MainIdle
SpecRead == InitRead /\ [][ReadNext]_vars

DerInit == timing_table \in TimingTables /\ derived = NotDerived
InitDerive == DerInit /\ ClsIdle /\ ReadIdle /\ MainIdle
NextDerive == Derive
SpecDerive == InitDerive /\ [][NextDerive]_vars

-----------------------------------------------------------------------------
(* The properties.                                                         *)

IsPrefix(a, b) == Len(a) <= Len(b) /\ SubSeq(b, 1, Len(a)) = a

\* some command of that set was run and failed
Failed(names) == \E i \in 1..Len(ops) : ops[i].op \in names /\ ~ops[i].ok

\* the commands of the clean, configure, build and run steps that go
\* through shell_safe (make distclean goes through shell: its status is
\* ignored and cleanup() does not fail on it)
StepCommands ==
    {"find", "git submodule update", "configure", "make -j8", "make", "mpirun"}

GitCommands == {"git rev-parse", "git show"}

Done(name) == \E i \in 1..Len(ops) : ops[i].op = name

C2_ExitCode ==
    (/\ pc = "exited"
     /\ args.good_given /\ args.bad_given /\ ~args.script
     /\ ~Failed(StepCommands \cup GitCommands))
    => /\ exitcode \in {0, 1}
       /\ exitcode # GIT_SKIP_COMMIT_EXIT_CODE
       /\ exitcode = 0 <=> verdict = "good"
       /\ verdict = "none" <=> ~Done("metric_is_good")
       /\ verdict # "none" =>
            LET m == Metrics(args, stats, RunTables(args, backups))
            IN  (verdict = "good") <=>
                   /\ NLess(m.metric, R(args.good + args.bad, 2))
                   /\ NLess(m.std, R(args.bad - args.good, 2))

C2_Witness ==
    /\ pc = "exited"
    /\ args.good_given /\ args.bad_given /\ ~args.script
    /\ args.metric = "inv_per_rhs" /\ args.repeat = 2
    /\ verdict = "good"
    /\ exitcode = 0

\* C3: when a command of an enabled clean, configure or build step or the
\* benchmark run fails, main() ends with exit code 125, both files are as
\* it found them, no script is run, metric_is_good is not called, and the
\* failed command is the last thing done.
C3_SkipOnFailure ==
    Failed(StepCommands) =>
        /\ pc = "exited"
        /\ exitcode = GIT_SKIP_COMMIT_EXIT_CODE
        /\ bisect_timings = timings0
        /\ bisect_script_log = script0
        /\ ~Done("script") /\ ~Done("metric_is_good")
        /\ verdict = "none"
        /\ ~stats.set
        /\ ~ops[Len(ops)].ok
        /\ \A i \in 1..(Len(ops) - 1) :
              ops[i].ok \/ ops[i].op = "make distclean"

C3_Witness ==
    /\ Failed({"make -j8"})
    /\ Done("configure")
    /\ timings0 # <<>>
    /\ exitcode = GIT_SKIP_COMMIT_EXIT_CODE

\* the benchmark runs and log backups made so far, in order
RunOps == SelectSeq(ops, LAMBDA o : o.op \in {"mpirun", "backup"})

\* C4: the repetitions run one after another, run i then backup i then run
\* i+1; each backup goes to a subdirectory of its own and holds the logs of
\* its own repetition; on success there are exactly repeat runs and repeat
\* backups.
C4_RunThenBackup ==
    /\ \A j \in 1..Len(RunOps) :
          /\ RunOps[j].op = (IF j % 2 = 1 THEN "mpirun" ELSE "backup")
          /\ RunOps[j].i = (j - 1) \div 2
    /\ \A j \in 1..Len(RunOps) :
          RunOps[j].op = "backup" =>
             \E b \in backups :
                /\ b.dir = subdir(RunOps[j].i)
                /\ b.content.by = RunOps[j].i
    /\ Cardinality(backups) = Len(RunOps) \div 2
    /\ stats.set => Len(RunOps) = 2 * args.repeat
    /\ pc = "parse" =>
          \A i, j \in 0..120 : i # j => subdir(i) # subdir(j)

C4_Witness ==
    /\ stats.set
    /\ args.repeat = 2
    /\ Len(RunOps) = 4
    /\ Cardinality(backups) = 2

\* C5: when the run of repetition k fails, nothing more is done: its logs
\* are not backed up, no later repetition runs, runtest returns no
\* statistics, and main() ends with exit code 125.
C5_FailedRunAborts ==
    \A n \in 1..Len(ops) :
        (ops[n].op = "mpirun" /\ ~ops[n].ok) =>
            /\ n = Len(ops)
            /\ ~\E b \in backups : b.content.by = ops[n].i
            /\ ~stats.set
            /\ verdict = "none"
            /\ pc = "exited"
            /\ exitcode = GIT_SKIP_COMMIT_EXIT_CODE
            /\ bisect_timings = timings0 /\ bisect_script_log = script0

C5_Witness ==
    /\ Len(ops) > 0
    /\ ops[Len(ops)] = Op("mpirun", 1, FALSE)
    /\ Cardinality(backups) = 1
    /\ exitcode = GIT_SKIP_COMMIT_EXIT_CODE

\* what a finished main() has added to the two files
LinesAdded ==
    LET nt == Len(bisect_timings) - Len(timings0)
        ns == Len(bisect_script_log) - Len(script0)
    IN  IF stats.set /\ args.write /\ ~args.just_run
        THEN IF args.script
             THEN /\ nt = 0 /\ ns = 1
                  /\ bisect_script_log[Len(bisect_script_log)].commit = git.commit
             ELSE /\ nt = 1 /\ ns = 0
                  /\ bisect_timings[Len(bisect_timings)] =
                        [commit |-> git.commit, date |-> git.date,
                         mean |-> stats.mean, std |-> stats.std,
                         low |-> stats.low, dir |-> LogDir(git)]
        ELSE nt = 0 /\ ns = 0

\* C6: the two files only grow at their end: a step keeps every earlier
\* line; a step whose build and runs succeeded and that may write adds one
\* line to one file (bisect_script_log with a script, else bisect_timings),
\* whatever the verdict; with --no-write or --just-run it adds none.
C6_AppendOnly ==
    [][/\ IsPrefix(bisect_timings, bisect_timings')
       /\ IsPrefix(bisect_script_log, bisect_script_log')
       /\ IsPrefix(timings0, bisect_timings')
       /\ IsPrefix(script0, bisect_script_log')
       /\ pc' = "exited" => LinesAdded']_vars

C6_Witness ==
    /\ pc = "exited"
    /\ verdict = "bad"
    /\ timings0 # <<>>
    /\ Len(bisect_timings) = Len(timings0) + 1

\* C7: when exactly one of --good and --bad is given, main() fails with the
\* RuntimeError before anything is done: no git query, no clean, configure,
\* build, run or backup, no line written.
C7_ValidationFirst ==
    (args.good_given # args.bad_given /\ pc \notin {"parse", "validate"}) =>
        /\ pc = "exited"
        /\ raised = "RuntimeError"
        /\ exitcode = 1
        /\ ops = <<>>
        /\ git = NoGit
        /\ backups = {}
        /\ data = StaleData
        /\ bisect_timings = timings0
        /\ bisect_script_log = script0

C7_Witness ==
    /\ pc = "exited"
    /\ ~args.good_given /\ args.bad_given
    /\ raised = "RuntimeError"
    /\ ops = <<>>

HasLine(f, kind) == \E i \in 1..Len(f.lines) : f.lines[i].kind = kind

DataRows(f) == Cardinality({i \in 1..Len(f.lines) : f.lines[i].kind = "row"})

\* a log as the simulation writes it: text, the header, a blank line, two
\* or more rows from simulation time 0 on, a blank line, "Run finished",
\* text
AsWritten(f) ==
    /\ f.exists
    /\ \E n \in 2..(MaxRows + 1) :
          f.lines = LogLines(TRUE, TRUE, TRUE, n, 0, TRUE, TRUE, TRUE)

\* C8: for a log with the header, the table has min(nout, data rows) rows,
\* one less with skip_first; without nout the count asked for is the
\* number of data rows.  (Stated for logs as the simulation writes them
\* and nout >= 1, and not for nout = rows + 2, where the count turns on how
\* the parser counts the blank lines around the table.)
C8_RowCount ==
    (/\ rd_result.by = "read"
     /\ AsWritten(logfile)
     /\ rd_args.nout_given =>
           (rd_args.nout >= 1 /\ rd_args.nout # DataRows(logfile) + 2))
    => /\ rd_result.kind = "table"
       /\ Len(rd_result.rows) =
             Min(IF rd_args.nout_given THEN rd_args.nout ELSE DataRows(logfile),
                 DataRows(logfile))
               - (IF rd_args.skip_first THEN 1 ELSE 0)

\* C9: a log with the header and no "Run finished" line is read to its
\* end: the call gives a table and does not fail.
C9_EndOfFile ==
    (/\ rd_result.by = "read"
     /\ logfile.exists
     /\ HasLine(logfile, "header")
     /\ ~HasLine(logfile, "finished"))
    => rd_result.kind = "table"

\* C10: when no line begins with "Sim Time", or the file cannot be opened,
\* the call fails and gives no table: the current reader fails in
\* _get_start_end_of_timings (the unbound start, or open()), before any
\* line is parsed; the first version's reader fails in open() or in
\* read_csv, which finds no "Sim Time" column.
C10_NoSentinel ==
    (rd_result.kind # "none" /\ (~logfile.exists \/ ~HasLine(logfile, "header")))
    => /\ rd_result.kind = "error"
       /\ rd_result.rows = <<>>
       /\ ~logfile.exists => rd_result.err = "FileNotFoundError"
       /\ (logfile.exists /\ rd_result.by = "read") =>
             rd_result.err = "UnboundLocalError"
       /\ (logfile.exists /\ rd_result.by = "legacy") =>
             rd_result.err \in {"ValueError", "EmptyDataError"}

C10_Witness ==
    /\ rd_result.by = "read"
    /\ logfile.exists
    /\ ~HasLine(logfile, "header")
    /\ HasLine(logfile, "finished")
    /\ DataRows(logfile) > 0
    /\ rd_result.err = "UnboundLocalError"

\* the last segment of a path as it is written, "data" standing for the
\* directory above it
LastSegment(segs) == IF segs = <<>> THEN <<>> ELSE segs[Len(segs)]

NameOfDirectory(directory) ==
    LET path == resolve(directory)
    IN  IF LastSegment(path) = Segment("data", "")
        THEN LastSegment(parent(path))
        ELSE LastSegment(path)

\* C11: the table the reader returns carries its name, with skip_first true
\* and false alike: the explicit name when one is given, else the last
\* segment of the directory path, or the last segment of the parent when the
\* last segment is "data".
C11_NameCarried ==
    (rd_result.by = "read" /\ rd_result.kind = "table")
        => rd_result.name = (IF rd_args.name_given THEN rd_args.name
                             ELSE NameOfDirectory(rd_args.directory))

\* the work units of the rows, and whether they are all positive, all equal
Work(rows) == [i \in 1..Len(rows) |-> rows[i].rhs]

AllPositive(seq) == \A i \in 1..Len(seq) : seq[i] > 0

AllEqual(seq) == \A i, j \in 1..Len(seq) : seq[i] = seq[j]

\* n times the covariance of the work units r and the per-row ratios
\* q[i] = column[i] / r[i]:  n * sum(r[i] * q[i]) - sum(r) * sum(q)
Covariance(rows, column) ==
    LET r == Work(rows)
        q == [i \in 1..Len(rows) |-> NDiv(Column(rows, column)[i], I(r[i]))]
        rq == [i \in 1..Len(rows) |-> NMul(I(r[i]), q[i])]
    IN  NSub(NMul(I(Len(rows)), SumNum(rq, 1)),
             NMul(I(SumInt(r, 1)), SumNum(q, 1)))

\* C12 as stated: whenever the work units of the rows are not all equal
\* the ratio of the sums differs from the row-wise mean, for every column.
C12_AlwaysDiffer ==
    (derived.column \in DerivedColumns /\ ~AllEqual(Work(timing_table)))
        => derived.average # derived.rowwise.mean

\* C12: on a table whose rows all have work units, the ratio of the sums
\* and the row-wise mean of a column differ exactly when the per-row ratios
\* vary with the work units (their covariance is not zero); work units
\* that are not all equal do not by themselves make the two differ.
C12_DifferIffCorrelated ==
    (derived.column \in DerivedColumns /\ AllPositive(Work(timing_table)))
        => ((derived.average # derived.rowwise.mean)
                <=> (Covariance(timing_table, derived.column) # I(0)))

C12_Witness ==
    /\ derived.column = "Wall Time"
    /\ AllPositive(Work(timing_table))
    /\ ~AllEqual(Work(timing_table))
    /\ derived.average # I(0)
    /\ derived.average = derived.rowwise.mean

\* C13: when the work units of a run's table add up to zero, computing
\* the per-work-unit metric fails with a division-by-zero error that ends
\* main(): metric_is_good is not called and no verdict is given on a value
\* such as infinity or not-a-number.
C13_ZeroWorkRaises ==
    (/\ pc = "exited"
     /\ args.good_given /\ args.bad_given /\ ~args.script
     /\ args.metric \in {"inv_per_rhs", "time_per_rhs"}
     /\ args.repeat >= 1
     /\ ~Failed(StepCommands \cup GitCommands)
     /\ LET dfs == RunTables(args, backups)
        IN  /\ \A i \in 1..Len(dfs) : dfs[i].kind = "table"
            /\ \E i \in 1..Len(dfs) : total_rhs(dfs[i].rows) = I(0))
    => /\ raised = "ZeroDivisionError"
       /\ verdict = "none"
       /\ ~Done("metric_is_good")

\* a log as the simulation writes it, with two or more rows, the first
\* row at any simulation time (a restarted simulation does not begin at 0)
WellFormed(f) ==
    /\ f.exists
    /\ \E n \in 2..MaxRows, t0 \in {0, 1} :
          f.lines = LogLines(TRUE, TRUE, TRUE, n, t0, TRUE, TRUE, TRUE)

\* the rows of the log's table, the first nout of them when nout is given
Parsed(f, a) ==
    LET all == ParseRows(SelectSeq(f.lines, LAMBDA l : l.kind = "row"), 1)
    IN  IF a.nout_given THEN SubSeq(all, 1, a.nout) ELSE all

\* C14: for every well-formed log, whatever the simulation time of its
\* first row, the reader returns the parsed rows in their order, without
\* the first one when skip_first is true and all of them when it is false,
\* each with its "(absolute)" columns.  (Stated for nout omitted or between
\* 1 and the number of rows of the table.)
C14_SkipFirst ==
    (/\ rd_result.by = "read"
     /\ WellFormed(logfile)
     /\ rd_args.nout_given =>
           (rd_args.nout >= 1 /\ rd_args.nout <= DataRows(logfile)))
    => /\ rd_result.kind = "table"
       /\ rd_result.rows =
             WithAbsolute(IF rd_args.skip_first
                          THEN Tail(Parsed(logfile, rd_args))
                          ELSE Parsed(logfile, rd_args))

====
